---- MODULE Spec2Model ----
(***************************************************************************)
(* Model of ncr-pk.c: the public-key core of the /dev/crypto NCR driver.   *)
(*                                                                         *)
(*  - the key pair generation engine: ncr_pk_generate submits a keygen_st  *)
(*    task to the single-threaded workqueue pk_wq, keygen_handler runs it  *)
(*    on the worker, the caller waits for the completion and then derives  *)
(*    the public key and the key identifier;                               *)
(*  - the cipher/signature context: ncr_pk_cipher_init / _deinit and the   *)
(*    encrypt, decrypt, sign and verify operations.                        *)
(*                                                                         *)
(* Pointers are modelled by the identifier of what they point to: a        *)
(* pointer to an algo_properties_st entry is the entry's algorithm name,   *)
(* a pointer to a key_item_st is an index of the key store `keys`, a       *)
(* pointer to a keygen_st (which lives on the stack of its caller) is the  *)
(* caller's identifier.                                                    *)
(***************************************************************************)
EXTENDS Integers, Sequences, FiniteSets, TLC

----------------------------------------------------------------------------
(* Bounds of the model *)

\* number of concurrent callers of ncr_pk_generate
NumCallers == 2

----------------------------------------------------------------------------
(* Program constants *)

EINVAL == 22
ENOMEM == 12
EOVERFLOW == 75

CRYPT_OK == 0
CRYPT_BUFFER_OVERFLOW == 6
CRYPT_MEM == 13
CRYPT_INVALID_ARG == 16

KEY_DATA_MAX_SIZE == 3072
MAX_KEY_ID_SIZE == 20
SHA1_DIGEST_SIZE == 20

NULL == "NULL"
ERR_PTR_EINVAL == "ERR_PTR(-EINVAL)"

NCR_ALG_NONE == "NCR_ALG_NONE"
NCR_ALG_RSA == "NCR_ALG_RSA"
NCR_ALG_DSA == "NCR_ALG_DSA"
NCR_ALG_SHA1 == "NCR_ALG_SHA1"
NCR_ALG_AES_CBC == "NCR_ALG_AES_CBC"

PK_PUBLIC == 0
PK_PRIVATE == 1

\* the statuses a numeric-library primitive can fail with
CretFailures == {CRYPT_BUFFER_OVERFLOW, CRYPT_MEM, CRYPT_INVALID_ARG}

----------------------------------------------------------------------------
(* Algorithm Registry *)

\* the algorithms that have an entry in the static table
RegisteredAlgos == {NCR_ALG_RSA, NCR_ALG_DSA, NCR_ALG_SHA1, NCR_ALG_AES_CBC}

\* lookup(identifier) -> AlgorithmProperties | not-found
_ncr_algo_to_properties(id) == IF id \in RegisteredAlgos THEN id ELSE NULL

\* IS_ERR(ptr): true of the ERR_PTR range only, false of NULL
IS_ERR(ptr) == ptr = ERR_PTR_EINVAL

\* PTR_ERR(ptr)
PTR_ERR(ptr) == IF ptr = ERR_PTR_EINVAL THEN -EINVAL ELSE 0

----------------------------------------------------------------------------
(* Error mapping *)

\* the errno values returned without their sign
tomerr_positive(err) ==
    CASE err = CRYPT_BUFFER_OVERFLOW -> EOVERFLOW
      [] err = CRYPT_MEM -> ENOMEM
      [] OTHER -> EINVAL

tomerr(err) ==
    CASE err = CRYPT_BUFFER_OVERFLOW -> -EOVERFLOW
      [] err = CRYPT_MEM -> -ENOMEM
      [] OTHER -> -EINVAL

----------------------------------------------------------------------------
(* Key items *)

Callers == 1..NumCallers

\* every caller brings its own private and its own public key_item_st
PrivateOf(c) == 2 * c - 1
PublicOf(c) == 2 * c
KeyIds == 1..(2 * NumCallers)

\* key.pk of a key_item_st that holds no numeric state
NoMaterial == [kind |-> "none", type |-> PK_PUBLIC, a |-> 0, b |-> 0, n |-> 0]

ZeroKeyId == [i \in 1..MAX_KEY_ID_SIZE |-> 0]

\* a key_item_st as the front end hands it over: allocated and empty
EmptyKeyItem ==
    [algorithm |-> NULL, material |-> NoMaterial,
     key_id |-> ZeroKeyId, key_id_size |-> 0]

\* memcpy(dst, src, n)
memcpy(dst, src, n) ==
    [i \in 1..Len(dst) |-> IF i <= n THEN src[i] ELSE dst[i]]

----------------------------------------------------------------------------
(* The numeric library, as far as this file relies on it.  A fault is the  *)
(* one library call of an operation that fails for a reason of its own     *)
(* (memory, random numbers, ...) and the status it fails with.             *)

NoFault == [stage |-> "none", cret |-> CRYPT_OK]

Faults ==
    {NoFault}
    \cup {[stage |-> "make", cret |-> c] : c \in CretFailures}
    \cup {[stage |-> s, cret |-> CRYPT_MEM] : s \in {"kmalloc", "export", "import", "hash"}}

RECURSIVE SumSeq(_)
SumSeq(s) == IF s = <<>> THEN 0 ELSE Head(s) + SumSeq(Tail(s))

FamilyCode(kind) == IF kind = "rsa" THEN 1 ELSE 2

\* the canonical encoding of a key; the private encoding carries one more field
Encode(type, key) ==
    <<FamilyCode(key.kind), type, key.a, key.b, key.n>>
        \o (IF type = PK_PRIVATE THEN <<key.n + 1>> ELSE <<>>)

\* rsa_make_key(size, e, &key), drawing the random value seed
rsa_make_key(flt, seed, size, e) ==
    IF flt.stage = "make" THEN [cret |-> flt.cret, key |-> NoMaterial]
    ELSE IF size = 0 \/ e < 3 \/ e % 2 = 0
         THEN [cret |-> CRYPT_INVALID_ARG, key |-> NoMaterial]
    ELSE [cret |-> CRYPT_OK,
          key |-> [kind |-> "rsa", type |-> PK_PRIVATE, a |-> size, b |-> e, n |-> seed]]

\* dsa_make_key(group_size, modulus_size, &key), drawing the random value seed
dsa_make_key(flt, seed, group_size, modulus_size) ==
    IF flt.stage = "make" THEN [cret |-> flt.cret, key |-> NoMaterial]
    ELSE IF group_size = 0 \/ group_size >= modulus_size
         THEN [cret |-> CRYPT_INVALID_ARG, key |-> NoMaterial]
    ELSE [cret |-> CRYPT_OK,
          key |-> [kind |-> "dsa", type |-> PK_PRIVATE,
                   a |-> group_size, b |-> modulus_size, n |-> seed]]

\* rsa_export / dsa_export(out, &outlen, type, key): outlen is in/out
pk_export(kind, flt, outlen, type, key) ==
    IF flt.stage = "export" THEN [cret |-> flt.cret, out |-> <<>>, outlen |-> outlen]
    ELSE IF key.kind # kind \/ (type = PK_PRIVATE /\ key.type # PK_PRIVATE)
         THEN [cret |-> CRYPT_INVALID_ARG, out |-> <<>>, outlen |-> outlen]
    ELSE IF Len(Encode(type, key)) > outlen
         THEN [cret |-> CRYPT_BUFFER_OVERFLOW, out |-> <<>>,
               outlen |-> Len(Encode(type, key))]
    ELSE [cret |-> CRYPT_OK, out |-> Encode(type, key),
          outlen |-> Len(Encode(type, key))]

rsa_export(flt, outlen, type, key) == pk_export("rsa", flt, outlen, type, key)
dsa_export(flt, outlen, type, key) == pk_export("dsa", flt, outlen, type, key)

\* rsa_import / dsa_import(in, inlen, &key)
pk_import(kind, flt, in, inlen) ==
    IF flt.stage = "import" THEN [cret |-> flt.cret, key |-> NoMaterial]
    ELSE IF inlen > Len(in) \/ inlen < 5 THEN [cret |-> CRYPT_INVALID_ARG, key |-> NoMaterial]
    ELSE IF in[1] # FamilyCode(kind) \/ inlen # 5 + in[2]
         THEN [cret |-> CRYPT_INVALID_ARG, key |-> NoMaterial]
    ELSE [cret |-> CRYPT_OK,
          key |-> [kind |-> kind, type |-> in[2], a |-> in[3], b |-> in[4], n |-> in[5]]]

rsa_import(flt, in, inlen) == pk_import("rsa", flt, in, inlen)
dsa_import(flt, in, inlen) == pk_import("dsa", flt, in, inlen)

\* the SHA-1 digest of a byte string
SHA1(in) == [i \in 1..SHA1_DIGEST_SIZE |-> (SumSeq(in) + 7 * i) % 256]

\* hash_memory(hash, in, inlen, out, &outlen): outlen is in/out
hash_memory(flt, hash, in, inlen, outlen) ==
    IF hash # NCR_ALG_SHA1 THEN [cret |-> CRYPT_INVALID_ARG, out |-> <<>>, outlen |-> outlen]
    ELSE IF outlen < SHA1_DIGEST_SIZE
         THEN [cret |-> CRYPT_BUFFER_OVERFLOW, out |-> <<>>, outlen |-> SHA1_DIGEST_SIZE]
    ELSE IF flt.stage = "hash" THEN [cret |-> flt.cret, out |-> <<>>, outlen |-> outlen]
    ELSE [cret |-> CRYPT_OK, out |-> SHA1(SubSeq(in, 1, inlen)),
          outlen |-> SHA1_DIGEST_SIZE]

----------------------------------------------------------------------------
(* Public-key derivation and identification *)

\* lines 120-121 without the memcpy into the public item
assign_key_id_nocopy(private, public, out, key_id_size) ==
    [private |-> [private EXCEPT !.key_id = memcpy(private.key_id, out, key_id_size),
                                 !.key_id_size = key_id_size],
     public |-> [public EXCEPT !.key_id_size = key_id_size]]

\* lines 114-121 on success: hash_memory has written the digest into
\* private->key_id; the length goes to both items, the bytes are copied
assign_key_id(private, public, out, key_id_size) ==
    LET private_id == memcpy(private.key_id, out, key_id_size)
    IN  [private |-> [private EXCEPT !.key_id = private_id,
                                     !.key_id_size = key_id_size],
         public |-> [public EXCEPT !.key_id = memcpy(public.key_id, private_id, key_id_size),
                                   !.key_id_size = key_id_size]]

\* return ret in the place of goto fail: the buffer stays allocated
return_without_kfree(ret, private, public, tmp) ==
    [ret |-> ret, private |-> private, public |-> public,
     tmp |-> tmp, kmalloc |-> 1, kfree |-> 0]

\* the label fail, lines 124-127, which the success path falls into as
\* well: kfree(tmp); return ret
kfree_and_return(ret, private, public, tmp) ==
    [ret |-> ret, private |-> private, public |-> public,
     tmp |-> tmp, kmalloc |-> 1, kfree |-> 1]

\* ncr_pk_make_public_and_id(private, public), lines 62-128: the result
\* code, the two key items as the call leaves them, the exported bytes, and
\* how often the temporary buffer was allocated and released
ncr_pk_make_public_and_id(flt, private, public) ==
    IF flt.stage = "kmalloc"
    THEN [ret |-> -ENOMEM, private |-> private, public |-> public,
          tmp |-> <<>>, kmalloc |-> 0, kfree |-> 0]
    ELSE
    LET algo == private.algorithm
        ex == IF algo = NCR_ALG_RSA
              THEN rsa_export(flt, KEY_DATA_MAX_SIZE, PK_PUBLIC, private.material)
              ELSE dsa_export(flt, KEY_DATA_MAX_SIZE, PK_PUBLIC, private.material)
        im == IF algo = NCR_ALG_RSA
              THEN rsa_import(flt, ex.out, ex.outlen)
              ELSE dsa_import(flt, ex.out, ex.outlen)
        h == hash_memory(flt, _ncr_algo_to_properties(NCR_ALG_SHA1),
                         ex.out, ex.outlen, MAX_KEY_ID_SIZE)
        imported == [public EXCEPT !.material = im.key]
        fail(r, pub, t) == kfree_and_return(r, private, pub, t)
    IN  IF algo \notin {NCR_ALG_RSA, NCR_ALG_DSA} THEN fail(-EINVAL, public, <<>>)
        ELSE IF ex.cret # CRYPT_OK THEN fail(tomerr(ex.cret), public, <<>>)
        ELSE IF im.cret # CRYPT_OK THEN fail(tomerr(im.cret), public, ex.out)
        ELSE IF h.cret # CRYPT_OK THEN fail(tomerr(h.cret), imported, ex.out)
        ELSE LET ids == assign_key_id(private, imported, h.out, h.outlen)
             IN kfree_and_return(0, ids.private, ids.public, ex.out)

----------------------------------------------------------------------------
(* Key pair generation engine: state *)

VARIABLES
    keys,       \* the key_item_st records of the front end, by key id
    params,     \* params[c]: the ncr_key_generate_params_st of caller c
    st,         \* st[c]: the struct keygen_st on the stack of caller c
    completed,  \* completed[c]: st[c].completed has been signalled
    pk_wq,      \* the workqueue: its worker threads and its pending work
    running,    \* the work items a worker thread is executing keygen_handler for
    handled,    \* the running work items whose handler has reached complete()
    pc,         \* pc[c]: where caller c is inside ncr_pk_generate
    gen_ret,    \* gen_ret[c]: what ncr_pk_generate returned to caller c
    fault,      \* fault[c]: the library fault the call of c runs into
    seed,       \* seed[c]: the random value the key of c is made from
    request,    \* request[c]: algorithm and parameters c called generate with
    make_args,  \* make_args[c]: the arguments the make_key primitive got
    submitted,  \* the work items in the order queue_work accepted them
    started     \* the work items in the order keygen_handler was entered

gen_vars == <<keys, params, st, completed, pk_wq, running, handled, pc, gen_ret,
              fault, seed, request, make_args, submitted, started>>

VARIABLES
    ctx,        \* the struct ncr_pk_ctx the front end operates on
    ctx_state,  \* where the context is in uninitialized -> initialized
    last,       \* the last context operation, its arguments and its outcome,
                \* if no key operation came after it
    last_init   \* the arguments and the result of the last ncr_pk_cipher_init

ctx_vars == <<ctx, ctx_state, last, last_init>>

VARIABLES
    tmp_buf,    \* tmp_buf[c]: the kmalloc and kfree calls for the export buffer
                \* of the last ncr_pk_make_public_and_id of caller c
    deinit,     \* ncr_pk_queue_deinit: where it is and the work it flushes
    key_last    \* the last pack, unpack or clear of a key item and its outcome,
                \* if no context operation came after it

life_vars == <<tmp_buf, deinit>>

vars == <<gen_vars, ctx_vars, life_vars, key_last>>

\* the random values a key is made from
Seeds == {5}

NoParams == [bits |-> 0, e |-> 0, q_bits |-> 0, p_bits |-> 0]

\* a call of generate: algorithm, request, and the fault the call meets
GenInput(a, p, f) == [algo |-> a, params |-> p, fault |-> f]

RsaParams(bits, e) == [NoParams EXCEPT !.bits = bits, !.e = e]
DsaParams(q, p) == [NoParams EXCEPT !.q_bits = q, !.p_bits = p]

\* the requests generate is called with, by algorithm
GenParams(algo) ==
    CASE algo = NCR_ALG_RSA ->
            {RsaParams(1024, e) : e \in {0, 3, 65537}}
      [] algo = NCR_ALG_DSA ->
            {DsaParams(q, p) : q \in {0, 160}, p \in {0, 1024, 2048}}
      [] OTHER -> {NoParams}

\* the requests every library fault is tried on
FaultedParams(algo) ==
    CASE algo = NCR_ALG_RSA ->
            {RsaParams(1024, e) : e \in {0, 65537}}
      [] algo = NCR_ALG_DSA ->
            {DsaParams(0, 0), DsaParams(160, 1024)}
      [] OTHER -> {}

\* the calls concurrent callers make
ConcInputs ==
    {GenInput(NCR_ALG_RSA, RsaParams(1024, 0), NoFault),
     GenInput(NCR_ALG_RSA, RsaParams(1024, 3), NoFault),
     GenInput(NCR_ALG_DSA, DsaParams(0, 0), NoFault),
     GenInput(NCR_ALG_DSA, DsaParams(160, 2048), NoFault),
     GenInput(NCR_ALG_AES_CBC, NoParams, NoFault),
     GenInput(NCR_ALG_RSA, RsaParams(1024, 0), [stage |-> "make", cret |-> CRYPT_MEM]),
     GenInput(NCR_ALG_DSA, DsaParams(0, 0), [stage |-> "make", cret |-> CRYPT_BUFFER_OVERFLOW]),
     GenInput(NCR_ALG_RSA, RsaParams(1024, 0), [stage |-> "hash", cret |-> CRYPT_MEM]),
     GenInput(NCR_ALG_DSA, DsaParams(0, 0), [stage |-> "kmalloc", cret |-> CRYPT_MEM])}

\* the calls of generate a pair of callers is run on
GenInputs ==
    {[algo |-> a, params |-> p, fault |-> NoFault] :
        a \in {NCR_ALG_RSA}, p \in GenParams(NCR_ALG_RSA)}
    \cup {[algo |-> a, params |-> p, fault |-> NoFault] :
        a \in {NCR_ALG_DSA}, p \in GenParams(NCR_ALG_DSA)}
    \cup {[algo |-> a, params |-> p, fault |-> NoFault] :
        a \in {NCR_ALG_AES_CBC}, p \in GenParams(NCR_ALG_AES_CBC)}
    \cup {[algo |-> a, params |-> p, fault |-> f] :
        a \in {NCR_ALG_RSA}, p \in FaultedParams(NCR_ALG_RSA), f \in Faults}
    \cup {[algo |-> a, params |-> p, fault |-> f] :
        a \in {NCR_ALG_DSA}, p \in FaultedParams(NCR_ALG_DSA), f \in Faults}

NoSt == [algo |-> NULL, private |-> 0, public |-> 0, params |-> 0, ret |-> 0]

NoArgs == <<>>

----------------------------------------------------------------------------
(* The workqueue *)

\* a workqueue with one worker thread per processor
ncr_pk_queue_init_multithread == [threads |-> 2, pending |-> <<>>, alive |-> TRUE]

\* ncr_pk_queue_init: create_singlethread_workqueue("ncr-pk")
ncr_pk_queue_init == [threads |-> 1, pending |-> <<>>, alive |-> TRUE]

\* a queue_work that reports the work queued and drops it
queue_work_lost(wq, work) == [ret |-> 1, wq |-> wq]

\* queue_work(wq, work): 1 when the work was queued, 0 when it was pending already
queue_work(wq, work) ==
    IF \E i \in 1..Len(wq.pending) : wq.pending[i] = work
    THEN [ret |-> 0, wq |-> wq]
    ELSE [ret |-> 1, wq |-> [wq EXCEPT !.pending = Append(@, work)]]

\* one static task record shared by all calls: the last one submitted
container_of_shared(instance) == submitted[Len(submitted)]

\* container_of(instance, struct keygen_st, pk_gen)
container_of(instance) == instance

----------------------------------------------------------------------------
(* keygen_handler, lines 215-245: the result code it records, the request  *)
(* and the private key material as it leaves them, and the arguments it    *)
(* passed to the make_key primitive.  The primitive is handed the key      *)
(* structure of the private item; what it holds afterwards is the          *)
(* primitive's answer, no material when the primitive failed.              *)

\* lines 217-220: the public exponent, 65537 when the request leaves it 0
rsa_exponent_nodefault(prm) == prm.e

rsa_exponent(prm) == IF prm.e = 0 THEN 65537 ELSE prm.e

\* lines 216-227
keygen_rsa(flt, sd, prm, material) ==
    LET e == rsa_exponent(prm)
        mk == rsa_make_key(flt, sd, prm.bits \div 8, e)
    IN  [ret |-> IF mk.cret # CRYPT_OK THEN tomerr(mk.cret) ELSE 0,
         params |-> prm,
         material |-> mk.key,
         args |-> <<prm.bits \div 8, e>>]

\* lines 228-241
keygen_dsa(flt, sd, prm, material) ==
    LET q_bits == IF prm.q_bits = 0 THEN 160 ELSE prm.q_bits
        p_bits == IF prm.p_bits = 0 THEN 1024 ELSE prm.p_bits
        mk == dsa_make_key(flt, sd, q_bits \div 8, p_bits \div 8)
    IN  [ret |-> IF mk.cret # CRYPT_OK THEN tomerr(mk.cret) ELSE 0,
         params |-> [prm EXCEPT !.q_bits = q_bits, !.p_bits = p_bits],
         material |-> mk.key,
         args |-> <<q_bits \div 8, p_bits \div 8>>]

\* the switch with the default label on the DSA case
keygen_handler_nodefault(s, flt, sd, prm, material) ==
    CASE s.algo = NCR_ALG_RSA -> keygen_rsa(flt, sd, prm, material)
      [] OTHER -> keygen_dsa(flt, sd, prm, material)

keygen_handler(s, flt, sd, prm, material) ==
    CASE s.algo = NCR_ALG_RSA -> keygen_rsa(flt, sd, prm, material)
      [] s.algo = NCR_ALG_DSA -> keygen_dsa(flt, sd, prm, material)
      [] OTHER ->
            [ret |-> -EINVAL, params |-> prm, material |-> material, args |-> NoArgs]

----------------------------------------------------------------------------
(* Cipher/signature context: data *)

LTC_LTC_PKCS_1_V1_5 == 1
LTC_LTC_PKCS_1_OAEP == 2
LTC_LTC_PKCS_1_PSS == 3

RSA_PKCS1_V1_5 == "RSA_PKCS1_V1_5"
RSA_PKCS1_OAEP == "RSA_PKCS1_OAEP"
RSA_PKCS1_PSS == "RSA_PKCS1_PSS"

NCR_VERIFICATION_FAILED == -2

\* a NULL struct key_item_st pointer
NULL_KEY == 0

\* memset(ctx, 0, sizeof(*ctx))
ZeroCtx ==
    [algorithm |-> NULL, key |-> NULL_KEY, sign_hash |-> NULL, type |-> 0,
     oaep_hash |-> NULL, salt_len |-> 0, init |-> 0]

\* the struct ncr_key_params_st values init is called with
RsaTypes == {RSA_PKCS1_V1_5, RSA_PKCS1_OAEP, RSA_PKCS1_PSS, "RSA_TYPE_OTHER"}
HashIds == {NCR_ALG_SHA1, NCR_ALG_NONE}
SaltLens == {0, 20}

KeyParams ==
    [rsa : [type : RsaTypes, oaep_hash : HashIds, sign_hash : HashIds,
            pss_salt : SaltLens],
     dsa : [sign_hash : HashIds]]

NoKeyParams ==
    [rsa |-> [type |-> RSA_PKCS1_V1_5, oaep_hash |-> NCR_ALG_NONE,
              sign_hash |-> NCR_ALG_NONE, pss_salt |-> 0],
     dsa |-> [sign_hash |-> NCR_ALG_NONE]]

\* the algorithms init is called with
CtxAlgos == {NCR_ALG_RSA, NCR_ALG_DSA, NCR_ALG_AES_CBC}

\* what a context operation did: its return code, whether it called the
\* numeric primitive, whether it dereferenced a NULL pointer (return code
\* and out-values then mean nothing), the caller's *output_size and *err
OpOutcome(ret, called, oops, output_size, err) ==
    [ret |-> ret, called |-> called, oops |-> oops,
     output_size |-> output_size, err |-> err]

\* what a primitive of the numeric library answers: status, validity, size
PrimAnswers ==
    [cret : {CRYPT_OK} \cup CretFailures, stat : {0, 1}, osize : {32}]

NoAnswer == [cret |-> CRYPT_OK, stat |-> 0, osize |-> 0]

\* the caller's buffer capacity and the value *err holds before verify
OutputCapacity == 64
ErrUnset == 7

NoLast ==
    [op |-> "none", state_before |-> "uninitialized", init_before |-> 0,
     ret |-> 0, called |-> FALSE, oops |-> FALSE,
     output_size |-> OutputCapacity, err |-> ErrUnset, answer |-> NoAnswer]

NoLastInit == [algo |-> NULL, key |-> NULL_KEY, params |-> NoKeyParams, ret |-> 0]

InitContext ==
    /\ ctx = ZeroCtx
    /\ ctx_state = "uninitialized"
    /\ last = NoLast
    /\ last_init = NoLastInit

\* no ncr_pk_make_public_and_id has run: no buffer allocated, none freed
NoBuffer == [kmalloc |-> 0, kfree |-> 0]

\* ncr_pk_queue_deinit has not been called
NoDeinit == [pc |-> "idle", flushing |-> {}]

\* no pack, unpack or clear has run
NoKeyOp ==
    [op |-> "none", key |-> 0, item |-> EmptyKeyItem, packed |-> NULL,
     capacity |-> 0, fault |-> NoFault, retry |-> FALSE,
     ret |-> 0, oops |-> FALSE, cret |-> CRYPT_OK, packed_size |-> 0,
     routine |-> "none"]

----------------------------------------------------------------------------
(* Key pair generation engine: actions *)

\* the engine after ncr_pk_queue_init, no call of generate made yet
InitEngine ==
    /\ params = [c \in Callers |-> NoParams]
    /\ st = [c \in Callers |-> NoSt]
    /\ completed = [c \in Callers |-> FALSE]
    /\ pk_wq = ncr_pk_queue_init
    /\ running = {}
    /\ handled = {}
    /\ pc = [c \in Callers |-> "idle"]
    /\ gen_ret = [c \in Callers |-> 0]
    /\ fault = [c \in Callers |-> NoFault]
    /\ seed = [c \in Callers |-> 0]
    /\ request = [c \in Callers |-> [algo |-> NULL, params |-> NoParams]]
    /\ make_args = [c \in Callers |-> NoArgs]
    /\ submitted = <<>>
    /\ started = <<>>
    /\ tmp_buf = [c \in Callers |-> NoBuffer]
    /\ deinit = NoDeinit
    /\ key_last = NoKeyOp

InitGen ==
    /\ keys = [k \in KeyIds |-> EmptyKeyItem]
    /\ InitEngine
    /\ InitContext

\* ncr_pk_generate, lines 258-273: fill in the task and queue it.  The
\* front end calls it while the workqueue exists and, ncr_pk_queue_deinit
\* being its module exit, lets no call begin once the teardown has begun.
GenerateSubmit(c, inputs) ==
    /\ pc[c] = "idle"
    /\ pk_wq.alive
    /\ deinit.pc = "idle"
    /\ \E in \in inputs, sd \in Seeds :
          LET algo == in.algo
              prm == in.params
              flt == in.fault
              q == queue_work(pk_wq, c)
          IN  /\ request' = [request EXCEPT ![c] = [algo |-> algo, params |-> prm]]
              /\ params' = [params EXCEPT ![c] = prm]
              /\ fault' = [fault EXCEPT ![c] = flt]
              /\ seed' = [seed EXCEPT ![c] = sd]
              /\ keys' = [keys EXCEPT ![PrivateOf(c)].algorithm = algo,
                                      ![PublicOf(c)].algorithm = algo]
              /\ st' = [st EXCEPT ![c] = [algo |-> algo, private |-> PrivateOf(c),
                                          public |-> PublicOf(c), params |-> c,
                                          ret |-> 0]]
              /\ completed' = [completed EXCEPT ![c] = FALSE]
              /\ pk_wq' = q.wq
              /\ submitted' = IF q.ret = 1 THEN Append(submitted, c) ELSE submitted
              /\ IF q.ret < 0
                 THEN /\ pc' = [pc EXCEPT ![c] = "done"]
                      /\ gen_ret' = [gen_ret EXCEPT ![c] = q.ret]
                 ELSE /\ pc' = [pc EXCEPT ![c] = "wait"]
                      /\ UNCHANGED gen_ret
    /\ UNCHANGED <<running, handled, make_args, started>>
    /\ UNCHANGED <<ctx_vars, life_vars, key_last>>

\* a caller that does not wait
wait_for_completion_skipped(c) == TRUE

\* wait_for_completion(&st.completed) and the test of st.ret, lines 275-279
wait_for_completion(c) == completed[c]

GenerateWake(c) ==
    /\ pc[c] = "wait"
    /\ wait_for_completion(c)
    /\ IF st[c].ret < 0
       THEN /\ pc' = [pc EXCEPT ![c] = "done"]
            /\ gen_ret' = [gen_ret EXCEPT ![c] = st[c].ret]
       ELSE /\ pc' = [pc EXCEPT ![c] = "derive"]
            /\ UNCHANGED gen_ret
    /\ UNCHANGED <<keys, params, st, completed, pk_wq, running, handled, fault,
                   seed, request, make_args, submitted, started>>
    /\ UNCHANGED <<ctx_vars, life_vars, key_last>>

\* ncr_pk_generate, lines 281-287: derive the public key and the identifier
GenerateDerive(c) ==
    /\ pc[c] = "derive"
    /\ LET r == ncr_pk_make_public_and_id(fault[c], keys[PrivateOf(c)], keys[PublicOf(c)])
       IN  /\ keys' = [keys EXCEPT ![PrivateOf(c)] = r.private,
                                   ![PublicOf(c)] = r.public]
           /\ gen_ret' = [gen_ret EXCEPT ![c] = IF r.ret < 0 THEN r.ret ELSE 0]
           /\ tmp_buf' = [tmp_buf EXCEPT ![c] = [kmalloc |-> r.kmalloc, kfree |-> r.kfree]]
    /\ pc' = [pc EXCEPT ![c] = "done"]
    /\ UNCHANGED <<params, st, completed, pk_wq, running, handled, fault,
                   seed, request, make_args, submitted, started>>
    /\ UNCHANGED <<ctx_vars, deinit, key_last>>

\* a worker thread of pk_wq takes the oldest pending work item
WorkerStart ==
    /\ pk_wq.alive
    /\ pk_wq.pending # <<>>
    /\ Cardinality(running) < pk_wq.threads
    /\ running' = running \cup {Head(pk_wq.pending)}
    /\ started' = Append(started, Head(pk_wq.pending))
    /\ pk_wq' = [pk_wq EXCEPT !.pending = Tail(@)]
    /\ UNCHANGED <<keys, params, st, completed, handled, pc, gen_ret, fault,
                   seed, request, make_args, submitted>>
    /\ UNCHANGED <<ctx_vars, life_vars, key_last>>

\* keygen_handler up to complete(), run for work item w
WorkerHandle(w) ==
    /\ w \in running \ handled
    /\ LET t == container_of(w)
           r == keygen_handler(st[t], fault[w], seed[w], params[st[t].params],
                               keys[st[t].private].material)
       IN  /\ st' = [st EXCEPT ![t].ret = r.ret]
           /\ params' = [params EXCEPT ![st[t].params] = r.params]
           /\ keys' = [keys EXCEPT ![st[t].private].material = r.material]
           /\ make_args' = [make_args EXCEPT ![w] = r.args]
    /\ handled' = handled \cup {w}
    /\ UNCHANGED <<completed, pk_wq, running, pc, gen_ret, fault, seed, request,
                   submitted, started>>
    /\ UNCHANGED <<ctx_vars, life_vars, key_last>>

\* complete(&st->completed), line 247, the last statement of the handler
WorkerComplete(w) ==
    /\ w \in handled
    /\ completed' = [completed EXCEPT ![container_of(w)] = TRUE]
    /\ running' = running \ {w}
    /\ handled' = handled \ {w}
    /\ UNCHANGED <<keys, params, st, pk_wq, pc, gen_ret, fault, seed, request,
                   make_args, submitted, started>>
    /\ UNCHANGED <<ctx_vars, life_vars, key_last>>

NextGen ==
    \/ \E c \in Callers : GenerateSubmit(c, ConcInputs)
    \/ \E c \in Callers : GenerateWake(c)
    \/ \E c \in Callers : GenerateDerive(c)
    \/ WorkerStart
    \/ \E w \in Callers : WorkerHandle(w)
    \/ \E w \in Callers : WorkerComplete(w)

\* any number of concurrent callers of generate
SpecGen == InitGen /\ [][NextGen]_vars

\* two concurrent callers, over every request and every library fault
PairCallers == {1, 2}

NextPair ==
    \/ \E c \in PairCallers : GenerateSubmit(c, GenInputs)
    \/ \E c \in PairCallers : GenerateWake(c)
    \/ \E c \in PairCallers : GenerateDerive(c)
    \/ WorkerStart
    \/ \E w \in PairCallers : WorkerHandle(w)
    \/ \E w \in PairCallers : WorkerComplete(w)

SpecPair == InitGen /\ [][NextPair]_vars

----------------------------------------------------------------------------
(* Properties of the key pair generation engine *)

Returned(c) == pc[c] = "done"

\* the bytes of a key item's identifier
KeyIdOf(item) == SubSeq(item.key_id, 1, item.key_id_size)

\* C1: after a successful generate, for RSA and for DSA, the private and the
\* public key item hold the same identifier of the same length, the length is
\* greater than 0 and at most MAX_KEY_ID_SIZE, and the identifier is the SHA-1
\* hash of the exported public encoding of the generated key, the encoding the
\* public item was imported from.
C1_KeyIdAfterGenerate ==
    \A c \in Callers :
        (Returned(c) /\ gen_ret[c] = 0) =>
            LET private == keys[PrivateOf(c)]
                public == keys[PublicOf(c)]
            IN  /\ request[c].algo \in {NCR_ALG_RSA, NCR_ALG_DSA}
                /\ private.key_id_size = public.key_id_size
                /\ private.key_id_size > 0
                /\ private.key_id_size <= MAX_KEY_ID_SIZE
                /\ KeyIdOf(private) = KeyIdOf(public)
                /\ KeyIdOf(private) = SHA1(Encode(PK_PUBLIC, private.material))
                /\ public.material.type = PK_PUBLIC
                /\ Encode(PK_PUBLIC, public.material) = Encode(PK_PUBLIC, private.material)

C1_Witness ==
    /\ Returned(1) /\ gen_ret[1] = 0 /\ request[1].algo = NCR_ALG_RSA
    /\ Returned(2) /\ gen_ret[2] = 0 /\ request[2].algo = NCR_ALG_DSA
    /\ keys[PublicOf(1)].key_id_size = SHA1_DIGEST_SIZE
    /\ keys[PublicOf(1)].key_id # keys[PublicOf(2)].key_id

Pending(w) == \E i \in 1..Len(pk_wq.pending) : pk_wq.pending[i] = w

\* C2: a caller of generate stays suspended from the submission of its task
\* until the worker has finished the task and signalled completion: while the
\* task is queued or running the call is neither deriving the public key nor
\* returned, so the worker never works on the task of a returned call.
C2_CallerSuspendedUntilComplete ==
    \A c \in Callers :
        (Pending(c) \/ c \in running) => (pc[c] = "wait" /\ ~completed[c])

C2_Witness ==
    \E c, d \in Callers :
        /\ pc[c] = "derive" /\ completed[c] /\ ~Pending(c) /\ c \notin running
        /\ pc[d] = "wait" /\ d \in handled

IsPrefix(s, t) == Len(s) <= Len(t) /\ SubSeq(t, 1, Len(s)) = s

\* C3: one worker serializes the key generation tasks: at most one
\* keygen_handler is executing, and the tasks are executed in the order
\* queue_work accepted them.
C3_SingleWorkerFifo ==
    /\ Cardinality(running) <= 1
    /\ IsPrefix(started, submitted)
    /\ submitted = started \o pk_wq.pending

C3_Witness ==
    /\ Len(submitted) = NumCallers
    /\ Len(started) >= 1
    /\ started[1] # 1
    /\ Cardinality(running) = 1
    /\ \E c \in Callers : pc[c] = "wait" /\ Pending(c)

\* what a call of generate does when it runs with no other call around
GenerateAlone(req, flt, sd) ==
    LET private == [EmptyKeyItem EXCEPT !.algorithm = req.algo]
        public == [EmptyKeyItem EXCEPT !.algorithm = req.algo]
        task == [NoSt EXCEPT !.algo = req.algo]
        h == keygen_handler(task, flt, sd, req.params, private.material)
        made == [private EXCEPT !.material = h.material]
        d == ncr_pk_make_public_and_id(flt, made, public)
    IN  IF h.ret < 0
        THEN [ret |-> h.ret, private |-> made, public |-> public, params |-> h.params]
        ELSE [ret |-> IF d.ret < 0 THEN d.ret ELSE 0,
              private |-> d.private, public |-> d.public, params |-> h.params]

\* the step is a step of the call of c: of the caller or of its task's handler
StepOf(c) ==
    \/ pc'[c] # pc[c]
    \/ c \in running' \ running
    \/ c \in handled' \ handled
    \/ c \in handled \ handled'

\* the step changes the request, the task record or a key item of c
Touches(c) ==
    \/ params'[c] # params[c]
    \/ st'[c] # st[c]
    \/ completed'[c] # completed[c]
    \/ keys'[PrivateOf(c)] # keys[PrivateOf(c)]
    \/ keys'[PublicOf(c)] # keys[PublicOf(c)]

CallResult(c) ==
    [ret |-> gen_ret[c], private |-> keys[PrivateOf(c)],
     public |-> keys[PublicOf(c)], params |-> params[c]]

\* C4: concurrent calls of generate, each with its own request and key items,
\* do not race: a call ends with the return code, request and key items it
\* would end with if it ran alone, and the request, task record and key items
\* of a call are changed by steps of that call only.
C4_NoInterference ==
    /\ [](\A c \in Callers :
            Returned(c) => CallResult(c) = GenerateAlone(request[c], fault[c], seed[c]))
    /\ [][\A c \in Callers : Touches(c) => StepOf(c)]_vars

C4_Witness ==
    /\ \A c \in Callers : Returned(c)
    /\ started[1] # 1
    /\ request[1] # request[2]
    /\ gen_ret[1] = 0
    /\ gen_ret[2] # 0

\* C5: generate with an algorithm that is neither RSA nor DSA fails with
\* -EINVAL and produces no key material, no identifier and no identifier
\* length in either key item.
C5_UnsupportedAlgorithm ==
    \A c \in Callers :
        (Returned(c) /\ request[c].algo \notin {NCR_ALG_RSA, NCR_ALG_DSA}) =>
            /\ gen_ret[c] = -EINVAL
            /\ \A k \in {PrivateOf(c), PublicOf(c)} :
                /\ keys[k].material = NoMaterial
                /\ keys[k].key_id = ZeroKeyId
                /\ keys[k].key_id_size = 0

C5_Witness ==
    \E c \in Callers :
        /\ Returned(c) /\ request[c].algo = NCR_ALG_AES_CBC
        /\ gen_ret[c] = -EINVAL
        /\ keys[PrivateOf(c)].algorithm = NCR_ALG_AES_CBC

\* the error a library status is reported as
MappedError(cret) ==
    IF cret = CRYPT_BUFFER_OVERFLOW THEN -EOVERFLOW
    ELSE IF cret = CRYPT_MEM THEN -ENOMEM
    ELSE -EINVAL

\* the key construction of the call of c fails in the library
MakeFails(c) ==
    /\ pc[c] # "idle"
    /\ request[c].algo \in {NCR_ALG_RSA, NCR_ALG_DSA}
    /\ fault[c].stage = "make"

\* C6: when the worker's key construction fails with a library error,
\* generate returns the mapped error the worker recorded, the public key
\* derivation and the identifier computation are not run, and both key items
\* are left without key material and with key_id and key_id_size unchanged.
C6_WorkerFailure ==
    \A c \in Callers :
        MakeFails(c) =>
            /\ pc[c] # "derive"
            /\ completed[c] => st[c].ret = MappedError(fault[c].cret)
            /\ Returned(c) => gen_ret[c] = MappedError(fault[c].cret)
            /\ \A k \in {PrivateOf(c), PublicOf(c)} :
                /\ keys[k].material = NoMaterial
                /\ keys[k].key_id = ZeroKeyId
                /\ keys[k].key_id_size = 0

C6_Witness ==
    \E c, d \in Callers :
        /\ MakeFails(c) /\ Returned(c) /\ gen_ret[c] = -ENOMEM
        /\ request[c].algo = NCR_ALG_RSA
        /\ MakeFails(d) /\ Returned(d) /\ gen_ret[d] = -EOVERFLOW
        /\ request[d].algo = NCR_ALG_DSA

\* the request with the documented defaults filled in
Defaulted(req) ==
    CASE req.algo = NCR_ALG_RSA ->
            [req.params EXCEPT !.e = IF @ = 0 THEN 65537 ELSE @]
      [] req.algo = NCR_ALG_DSA ->
            [req.params EXCEPT !.q_bits = IF @ = 0 THEN 160 ELSE @,
                               !.p_bits = IF @ = 0 THEN 1024 ELSE @]
      [] OTHER -> req.params

\* two returned calls whose requests differ at most in fields left 0 where
\* the other names the default, run on the same random value and library
SameUpToDefaults(c, d) ==
    /\ Returned(c) /\ Returned(d)
    /\ request[c].algo = request[d].algo
    /\ request[c].algo \in {NCR_ALG_RSA, NCR_ALG_DSA}
    /\ Defaulted(request[c]) = Defaulted(request[d])
    /\ fault[c] = fault[d]
    /\ seed[c] = seed[d]

SameMakeAndKeys(c, d) ==
    /\ make_args[c] = make_args[d]
    /\ gen_ret[c] = gen_ret[d]
    /\ keys[PrivateOf(c)] = keys[PrivateOf(d)]
    /\ keys[PublicOf(c)] = keys[PublicOf(d)]

\* C7 as stated: a request with RSA exponent 0, or with DSA q_bits or p_bits
\* 0, behaves as the request with 65537, 160 and 1024 in their place: same
\* arguments to the make_key primitive, same result, same final key items
\* and the same final request.
C7_DefaultsSameFinalRequest ==
    \A c, d \in Callers :
        SameUpToDefaults(c, d) => (SameMakeAndKeys(c, d) /\ params[c] = params[d])

\* C7, amended: same arguments to the make_key primitive, same result and
\* same final key items; a DSA request ends with the defaults written into
\* it, an RSA request ends as it was passed, its exponent still 0.
C7_DefaultsApplied ==
    \A c, d \in Callers :
        SameUpToDefaults(c, d) =>
            /\ SameMakeAndKeys(c, d)
            /\ request[c].algo = NCR_ALG_DSA =>
                    (params[c] = Defaulted(request[c]) /\ params[c] = params[d])
            /\ request[c].algo = NCR_ALG_RSA => params[c] = request[c].params

C7_Witness ==
    \E c, d \in Callers :
        /\ SameUpToDefaults(c, d)
        /\ request[c].algo = NCR_ALG_DSA
        /\ request[c].params = DsaParams(0, 2048)
        /\ request[d].params = DsaParams(160, 2048)
        /\ gen_ret[c] = 0
        /\ keys[PrivateOf(c)].material.kind = "dsa"

\* generate returned 0 for an RSA request that left the exponent 0
C7_RsaDefaultReached ==
    \E c, d \in Callers :
        /\ SameUpToDefaults(c, d)
        /\ request[c].params = RsaParams(1024, 0)
        /\ request[d].params = RsaParams(1024, 65537)
        /\ gen_ret[c] = 0

----------------------------------------------------------------------------
(* Cipher/signature context: operations *)

\* both families read from the RSA member of the params union
ncr_key_params_get_sign_hash_rsa_only(algo, prm) ==
    CASE algo = NCR_ALG_RSA -> _ncr_algo_to_properties(prm.rsa.sign_hash)
      [] algo = NCR_ALG_DSA -> _ncr_algo_to_properties(prm.rsa.sign_hash)
      [] OTHER -> ERR_PTR_EINVAL

\* ncr_key_params_get_sign_hash, lines 308-323
ncr_key_params_get_sign_hash(algo, prm) ==
    CASE algo = NCR_ALG_RSA -> _ncr_algo_to_properties(prm.rsa.sign_hash)
      [] algo = NCR_ALG_DSA -> _ncr_algo_to_properties(prm.dsa.sign_hash)
      [] OTHER -> ERR_PTR_EINVAL

\* deinit that drops the key reference but leaves ctx->init set
ncr_pk_cipher_deinit_keeps_flag(c) ==
    IF c.init # 0 THEN [c EXCEPT !.key = NULL_KEY] ELSE c

\* ncr_pk_cipher_deinit, lines 328-334
ncr_pk_cipher_deinit(c) ==
    IF c.init # 0 THEN [c EXCEPT !.init = 0, !.key = NULL_KEY] ELSE c

\* ncr_pk_cipher_init from line 347 on: algo is the algorithm of the key
cipher_init_bound(algo, prm, key) ==
    LET bound == [ZeroCtx EXCEPT !.algorithm = algo, !.key = key,
                                 !.sign_hash = ncr_key_params_get_sign_hash(algo, prm)]
    IN  IF IS_ERR(bound.sign_hash)
        THEN [ret |-> PTR_ERR(bound.sign_hash), ctx |-> bound]
        ELSE CASE algo = NCR_ALG_RSA ->
                    LET salted(c) == [c EXCEPT !.salt_len = prm.rsa.pss_salt, !.init = 1]
                    IN  IF prm.rsa.type = RSA_PKCS1_V1_5
                        THEN [ret |-> 0,
                              ctx |-> salted([bound EXCEPT !.type = LTC_LTC_PKCS_1_V1_5])]
                        ELSE IF prm.rsa.type = RSA_PKCS1_OAEP
                        THEN LET oaep == [bound EXCEPT
                                    !.type = LTC_LTC_PKCS_1_OAEP,
                                    !.oaep_hash = _ncr_algo_to_properties(prm.rsa.oaep_hash)]
                             IN  IF oaep.oaep_hash = NULL
                                 THEN [ret |-> -EINVAL, ctx |-> oaep]
                                 ELSE [ret |-> 0, ctx |-> salted(oaep)]
                        ELSE IF prm.rsa.type = RSA_PKCS1_PSS
                        THEN [ret |-> 0,
                              ctx |-> salted([bound EXCEPT !.type = LTC_LTC_PKCS_1_PSS])]
                        ELSE [ret |-> 0, ctx |-> salted(bound)]
               [] algo = NCR_ALG_DSA -> [ret |-> 0, ctx |-> [bound EXCEPT !.init = 1]]
               [] OTHER -> [ret |-> -EINVAL, ctx |-> bound]

\* init that binds whatever key it is given
ncr_pk_cipher_init_unchecked(algo, prm, key, key_algorithm) ==
    cipher_init_bound(algo, prm, key)

\* ncr_pk_cipher_init, lines 336-381; key_algorithm is key->algorithm
ncr_pk_cipher_init(algo, prm, key, key_algorithm) ==
    IF key_algorithm # algo
    THEN [ret |-> -EINVAL, ctx |-> ZeroCtx]
    ELSE cipher_init_bound(algo, prm, key)

\* ctx->algorithm->algo read through a NULL ctx->algorithm
Oops(output_size, err) == OpOutcome(0, FALSE, TRUE, output_size, err)

\* a primitive handed &ctx->key->key.pk of a NULL ctx->key
OopsInPrimitive(output_size, err) == OpOutcome(0, TRUE, TRUE, output_size, err)

\* ncr_pk_cipher_encrypt with the DSA case falling into the RSA case
ncr_pk_cipher_encrypt_dsa_as_rsa(c, output_size, answer) ==
    IF c.algorithm = NULL THEN Oops(output_size, ErrUnset)
    ELSE IF c.algorithm \in {NCR_ALG_RSA, NCR_ALG_DSA}
    THEN IF c.key = NULL_KEY THEN OopsInPrimitive(output_size, ErrUnset)
         ELSE IF answer.cret # CRYPT_OK
         THEN OpOutcome(tomerr(answer.cret), TRUE, FALSE, output_size, ErrUnset)
         ELSE OpOutcome(0, TRUE, FALSE, answer.osize, ErrUnset)
    ELSE OpOutcome(-EINVAL, FALSE, FALSE, output_size, ErrUnset)

\* ncr_pk_cipher_encrypt, lines 383-411
ncr_pk_cipher_encrypt(c, output_size, answer) ==
    IF c.algorithm = NULL THEN Oops(output_size, ErrUnset)
    ELSE CASE c.algorithm = NCR_ALG_RSA ->
                IF c.key = NULL_KEY THEN OopsInPrimitive(output_size, ErrUnset)
                ELSE IF answer.cret # CRYPT_OK
                THEN OpOutcome(tomerr(answer.cret), TRUE, FALSE, output_size, ErrUnset)
                ELSE OpOutcome(0, TRUE, FALSE, answer.osize, ErrUnset)
           [] c.algorithm = NCR_ALG_DSA ->
                OpOutcome(-EINVAL, FALSE, FALSE, output_size, ErrUnset)
           [] OTHER -> OpOutcome(-EINVAL, FALSE, FALSE, output_size, ErrUnset)

\* ncr_pk_cipher_decrypt without the test of stat at lines 430-433
ncr_pk_cipher_decrypt_ignoring_stat(c, output_size, answer) ==
    IF c.algorithm = NULL THEN Oops(output_size, ErrUnset)
    ELSE CASE c.algorithm = NCR_ALG_RSA ->
                IF c.key = NULL_KEY THEN OopsInPrimitive(output_size, ErrUnset)
                ELSE IF answer.cret # CRYPT_OK
                THEN OpOutcome(tomerr(answer.cret), TRUE, FALSE, output_size, ErrUnset)
                ELSE OpOutcome(0, TRUE, FALSE, answer.osize, ErrUnset)
           [] c.algorithm = NCR_ALG_DSA ->
                OpOutcome(-EINVAL, FALSE, FALSE, output_size, ErrUnset)
           [] OTHER -> OpOutcome(-EINVAL, FALSE, FALSE, output_size, ErrUnset)

\* ncr_pk_cipher_decrypt, lines 413-445
ncr_pk_cipher_decrypt(c, output_size, answer) ==
    IF c.algorithm = NULL THEN Oops(output_size, ErrUnset)
    ELSE CASE c.algorithm = NCR_ALG_RSA ->
                IF c.key = NULL_KEY THEN OopsInPrimitive(output_size, ErrUnset)
                ELSE IF answer.cret # CRYPT_OK
                THEN OpOutcome(tomerr(answer.cret), TRUE, FALSE, output_size, ErrUnset)
                ELSE IF answer.stat = 0
                THEN OpOutcome(-EINVAL, TRUE, FALSE, output_size, ErrUnset)
                ELSE OpOutcome(0, TRUE, FALSE, answer.osize, ErrUnset)
           [] c.algorithm = NCR_ALG_DSA ->
                OpOutcome(-EINVAL, FALSE, FALSE, output_size, ErrUnset)
           [] OTHER -> OpOutcome(-EINVAL, FALSE, FALSE, output_size, ErrUnset)

\* ncr_pk_cipher_sign, lines 447-485
ncr_pk_cipher_sign(c, output_size, answer) ==
    IF c.algorithm = NULL THEN Oops(output_size, ErrUnset)
    ELSE CASE c.algorithm = NCR_ALG_RSA ->
                IF c.sign_hash = NULL
                THEN OpOutcome(-EINVAL, FALSE, FALSE, output_size, ErrUnset)
                ELSE IF c.key = NULL_KEY THEN OopsInPrimitive(output_size, ErrUnset)
                ELSE IF answer.cret # CRYPT_OK
                THEN OpOutcome(tomerr(answer.cret), TRUE, FALSE, output_size, ErrUnset)
                ELSE OpOutcome(0, TRUE, FALSE, answer.osize, ErrUnset)
           [] c.algorithm = NCR_ALG_DSA ->
                IF c.key = NULL_KEY THEN OopsInPrimitive(output_size, ErrUnset)
                ELSE IF answer.cret # CRYPT_OK
                THEN OpOutcome(tomerr(answer.cret), TRUE, FALSE, output_size, ErrUnset)
                ELSE OpOutcome(0, TRUE, FALSE, answer.osize, ErrUnset)
           [] OTHER -> OpOutcome(-EINVAL, FALSE, FALSE, output_size, ErrUnset)

\* the status written to *err if the else branches at 511 and 525 were
\* missing
verify_status_always_ok(stat) == 0

\* lines 509-512 and 523-526: the verification status written to *err
verify_status(stat) == IF stat = 1 THEN 0 ELSE NCR_VERIFICATION_FAILED

\* ncr_pk_cipher_verify, lines 487-535
ncr_pk_cipher_verify(c, err, answer) ==
    IF c.algorithm = NULL THEN Oops(OutputCapacity, err)
    ELSE CASE c.algorithm = NCR_ALG_RSA ->
                IF c.sign_hash = NULL
                THEN OpOutcome(-EINVAL, FALSE, FALSE, OutputCapacity, err)
                ELSE IF c.key = NULL_KEY THEN OopsInPrimitive(OutputCapacity, err)
                ELSE IF answer.cret # CRYPT_OK
                THEN OpOutcome(tomerr(answer.cret), TRUE, FALSE, OutputCapacity, err)
                ELSE OpOutcome(0, TRUE, FALSE, OutputCapacity, verify_status(answer.stat))
           [] c.algorithm = NCR_ALG_DSA ->
                IF c.key = NULL_KEY THEN OopsInPrimitive(OutputCapacity, err)
                ELSE IF answer.cret # CRYPT_OK
                THEN OpOutcome(tomerr(answer.cret), TRUE, FALSE, OutputCapacity, err)
                ELSE OpOutcome(0, TRUE, FALSE, OutputCapacity, verify_status(answer.stat))
           [] OTHER -> OpOutcome(-EINVAL, FALSE, FALSE, OutputCapacity, err)

----------------------------------------------------------------------------
(* Cipher/signature context: actions *)

\* the key items the front end has: an RSA and a DSA private key made by
\* generate, an item of a symmetric algorithm, the others empty
RsaKeyItem ==
    [EmptyKeyItem EXCEPT
        !.algorithm = NCR_ALG_RSA,
        !.material = rsa_make_key(NoFault, 5, 128, 65537).key]
DsaKeyItem ==
    [EmptyKeyItem EXCEPT
        !.algorithm = NCR_ALG_DSA,
        !.material = dsa_make_key(NoFault, 5, 20, 128).key]
ContextKeyIds == {k \in KeyIds : k <= 4}

ContextKeys ==
    [k \in KeyIds |->
        CASE k = 1 -> RsaKeyItem
          [] k = 2 -> DsaKeyItem
          [] k = 3 -> [EmptyKeyItem EXCEPT !.algorithm = NCR_ALG_AES_CBC]
          [] OTHER -> EmptyKeyItem]

InitCtx ==
    /\ keys = ContextKeys
    /\ InitEngine
    /\ InitContext

Record(op, r, answer) ==
    [op |-> op, state_before |-> ctx_state, init_before |-> ctx.init,
     ret |-> r.ret, called |-> r.called, oops |-> r.oops,
     output_size |-> r.output_size, err |-> r.err, answer |-> answer]

\* ncr_pk_cipher_init called with an algorithm, a key and parameters out of
\* the given sets
CipherInitWith(algos, key_ids, prms) ==
    \E algo \in algos, key \in key_ids, prm \in prms :
        LET r == ncr_pk_cipher_init(algo, prm, key, keys[key].algorithm)
        IN  /\ ctx' = r.ctx
            /\ ctx_state' = IF r.ret = 0 THEN "initialized" ELSE "uninitialized"
            /\ last' = Record("init", OpOutcome(r.ret, FALSE, FALSE, OutputCapacity, ErrUnset),
                              NoAnswer)
            /\ last_init' = [algo |-> algo, key |-> key, params |-> prm, ret |-> r.ret]
            /\ key_last' = NoKeyOp
            /\ UNCHANGED <<gen_vars, life_vars>>

CipherInit == CipherInitWith(CtxAlgos, ContextKeyIds, KeyParams)

CipherDeinit ==
    /\ ctx' = ncr_pk_cipher_deinit(ctx)
    /\ ctx_state' = "uninitialized"
    /\ last' = Record("deinit", OpOutcome(0, FALSE, FALSE, OutputCapacity, ErrUnset), NoAnswer)
    /\ key_last' = NoKeyOp
    /\ UNCHANGED <<last_init, gen_vars, life_vars>>

CipherEncrypt ==
    \E answer \in PrimAnswers :
        LET r == ncr_pk_cipher_encrypt(ctx, OutputCapacity, answer)
        IN  /\ last' = Record("encrypt", r, IF r.called /\ ~r.oops THEN answer ELSE NoAnswer)
            /\ key_last' = NoKeyOp
            /\ UNCHANGED <<ctx, ctx_state, last_init, gen_vars, life_vars>>

CipherDecrypt ==
    \E answer \in PrimAnswers :
        LET r == ncr_pk_cipher_decrypt(ctx, OutputCapacity, answer)
        IN  /\ last' = Record("decrypt", r, IF r.called /\ ~r.oops THEN answer ELSE NoAnswer)
            /\ key_last' = NoKeyOp
            /\ UNCHANGED <<ctx, ctx_state, last_init, gen_vars, life_vars>>

CipherSign ==
    \E answer \in PrimAnswers :
        LET r == ncr_pk_cipher_sign(ctx, OutputCapacity, answer)
        IN  /\ last' = Record("sign", r, IF r.called /\ ~r.oops THEN answer ELSE NoAnswer)
            /\ key_last' = NoKeyOp
            /\ UNCHANGED <<ctx, ctx_state, last_init, gen_vars, life_vars>>

CipherVerify ==
    \E answer \in PrimAnswers :
        LET r == ncr_pk_cipher_verify(ctx, ErrUnset, answer)
        IN  /\ last' = Record("verify", r, IF r.called /\ ~r.oops THEN answer ELSE NoAnswer)
            /\ key_last' = NoKeyOp
            /\ UNCHANGED <<ctx, ctx_state, last_init, gen_vars, life_vars>>

NextCtx ==
    \/ CipherInit
    \/ CipherDeinit
    \/ CipherEncrypt
    \/ CipherDecrypt
    \/ CipherSign
    \/ CipherVerify

\* one context under any sequence of init, deinit and cipher operations
SpecCtx == InitCtx /\ [][NextCtx]_vars

----------------------------------------------------------------------------
(* Properties of the cipher/signature context *)

CipherOps == {"encrypt", "decrypt", "sign", "verify"}

\* C8: encrypt, decrypt, sign or verify called on a context that is not in
\* the initialized state (never initialized, last init failed, or
\* deinitialized) does not call the numeric primitive and does not report
\* success.
C8_NoOperationBeforeInit ==
    (last.op \in CipherOps /\ last.state_before = "uninitialized") =>
        (~last.called /\ (last.oops \/ last.ret # 0))

\* the hash identifier init resolves for the family of the algorithm
FamilySignHash(algo, prm) ==
    IF algo = NCR_ALG_RSA THEN prm.rsa.sign_hash ELSE prm.dsa.sign_hash

Resolvable(id) == id \in RegisteredAlgos

\* the last operation was an init with a key of the requested algorithm
InitOfMatchingKey ==
    /\ last.op = "init"
    /\ keys[last_init.key].algorithm = last_init.algo

\* C9 as stated: init fails with -EINVAL whenever the sign hash identifier
\* of the family-specific params field is not resolved by the registry, and
\* so every initialized context has a non-null sign hash.
C9_InitRejectsUnresolvedSignHash ==
    /\ (/\ InitOfMatchingKey
        /\ last_init.algo \in {NCR_ALG_RSA, NCR_ALG_DSA}
        /\ ~Resolvable(FamilySignHash(last_init.algo, last_init.params)))
       => last.ret = -EINVAL
    /\ ctx.init = 1 => ctx.sign_hash # NULL

\* an RSA init asking for OAEP with an OAEP hash the registry does not have
UnresolvedOaep(i) ==
    /\ i.algo = NCR_ALG_RSA
    /\ i.params.rsa.type = RSA_PKCS1_OAEP
    /\ ~Resolvable(i.params.rsa.oaep_hash)

\* C9, amended: the sign hash step of init fails, with -EINVAL, only for an
\* algorithm that is neither RSA nor DSA.  For RSA and DSA an unresolved
\* identifier leaves a NULL sign hash and init goes on (and succeeds unless
\* the OAEP hash is unresolved); an initialized context holds the registry's
\* answer for the family's sign hash field, NULL included; RSA sign and
\* verify on a context with a NULL sign hash return -EINVAL without calling
\* the primitive.
C9_UnresolvedSignHashIsNull ==
    /\ (InitOfMatchingKey /\ last_init.algo \notin {NCR_ALG_RSA, NCR_ALG_DSA})
       => (last.ret = -EINVAL /\ ctx.init = 0)
    /\ (/\ InitOfMatchingKey
        /\ last_init.algo \in {NCR_ALG_RSA, NCR_ALG_DSA}
        /\ ~Resolvable(FamilySignHash(last_init.algo, last_init.params)))
       => /\ ctx.sign_hash = NULL
          /\ IF UnresolvedOaep(last_init)
             THEN last.ret = -EINVAL /\ ctx.init = 0
             ELSE last.ret = 0 /\ ctx.init = 1
    /\ ctx.init = 1 =>
          ctx.sign_hash =
              IF Resolvable(FamilySignHash(last_init.algo, last_init.params))
              THEN FamilySignHash(last_init.algo, last_init.params)
              ELSE NULL
    /\ (/\ last.op \in {"sign", "verify"}
        /\ ctx.algorithm = NCR_ALG_RSA
        /\ ctx.sign_hash = NULL)
       => (last.ret = -EINVAL /\ ~last.called /\ ~last.oops)

C9_Witness ==
    /\ ctx.init = 1
    /\ ctx.algorithm = NCR_ALG_RSA
    /\ ctx.sign_hash = NULL
    /\ last_init.params.rsa.sign_hash = NCR_ALG_NONE
    /\ last_init.params.dsa.sign_hash = NCR_ALG_SHA1
    /\ last.op = "sign"
    /\ last.ret = -EINVAL

\* C10: init with a key whose algorithm differs from the requested algorithm
\* fails with -EINVAL, whatever padding type, sign hash, OAEP hash and salt
\* length are supplied, and leaves the context not initialized.
C10_InitRejectsKeyOfOtherAlgorithm ==
    (last.op = "init" /\ keys[last_init.key].algorithm # last_init.algo) =>
        /\ last.ret = -EINVAL
        /\ ctx.init = 0
        /\ ctx_state = "uninitialized"
        /\ ctx.key = NULL_KEY

C10_Witness ==
    /\ last.op = "init"
    /\ last.init_before = 1
    /\ last_init.algo = NCR_ALG_DSA
    /\ keys[last_init.key].algorithm = NCR_ALG_RSA
    /\ last_init.params.rsa.type = RSA_PKCS1_PSS
    /\ last_init.params.dsa.sign_hash = NCR_ALG_SHA1
    /\ last.ret = -EINVAL

----------------------------------------------------------------------------
(* Claims about the outcomes of the cipher operations *)

\* a verify call made on an initialised context has returned
VerifyDone == last.op = "verify" /\ last.init_before = 1 /\ ~last.oops

\* outcome (a): the primitive reports a failure, verify returns the mapped
\* error and leaves *err alone
VerifyOperationalFailure ==
    /\ last.called
    /\ last.answer.cret # CRYPT_OK
    /\ last.ret = MappedError(last.answer.cret)
    /\ last.ret # 0
    /\ last.err = ErrUnset

\* outcome (b): the primitive succeeds with status 1
VerifyAccepted ==
    /\ last.called
    /\ last.answer.cret = CRYPT_OK
    /\ last.answer.stat = 1
    /\ last.ret = 0
    /\ last.err = 0

\* outcome (c): the primitive succeeds with any other status
VerifyRejected ==
    /\ last.called
    /\ last.answer.cret = CRYPT_OK
    /\ last.answer.stat # 1
    /\ last.ret = 0
    /\ last.err = NCR_VERIFICATION_FAILED

\* the RSA context holds no sign hash: verify returns -EINVAL at line 498
\* before it reaches the primitive
VerifyWithoutSignHash ==
    /\ ~last.called
    /\ ctx.algorithm = NCR_ALG_RSA
    /\ ctx.sign_hash = NULL
    /\ last.ret = -EINVAL
    /\ last.err = ErrUnset

\* C11 as stated: every verify on an RSA or DSA context ends in one of
\* the three outcomes (a), (b), (c), each of which starts at an answer of
\* the primitive.
C11_VerifyThreeOutcomes ==
    VerifyDone =>
        \/ VerifyOperationalFailure
        \/ VerifyAccepted
        \/ VerifyRejected

\* C11: a verify call on an initialised RSA or DSA context ends in exactly
\* one of: a non-zero mapped error with *err untouched (the primitive
\* failed, or the RSA context has no sign hash and the primitive is not
\* called), return 0 with *err = 0 (status 1), return 0 with
\* *err = NCR_VERIFICATION_FAILED (any other status).  A rejected signature
\* is never a failure return code and never a success.
C11_VerifyOutcomes ==
    VerifyDone =>
        /\ \/ VerifyOperationalFailure
           \/ VerifyWithoutSignHash
           \/ VerifyAccepted
           \/ VerifyRejected
        /\ ~(VerifyOperationalFailure /\ VerifyWithoutSignHash)
        /\ ~(VerifyAccepted /\ VerifyRejected)
        /\ last.ret # 0 => ~(VerifyAccepted \/ VerifyRejected)
        /\ (last.called /\ last.answer.cret = CRYPT_OK /\ last.answer.stat # 1)
               => (last.ret = 0 /\ last.err = NCR_VERIFICATION_FAILED)

\* a DSA signature the primitive rejected
C11_Witness ==
    /\ VerifyDone
    /\ ctx.algorithm = NCR_ALG_DSA
    /\ VerifyRejected

\* verify of an initialised RSA context that holds no sign hash
C11_NoSignHashReached == VerifyDone /\ VerifyWithoutSignHash

\* C12: an RSA decrypt whose primitive returns success with validity
\* status 0 returns -EINVAL, never 0, and leaves the caller's *output_size
\* as it was.
C12_DecryptInvalidPadding ==
    (/\ last.op = "decrypt"
     /\ last.called
     /\ ~last.oops
     /\ last.answer.cret = CRYPT_OK
     /\ last.answer.stat = 0)
        => (last.ret = -EINVAL /\ last.output_size = OutputCapacity)

C12_Witness ==
    /\ last.op = "decrypt"
    /\ ctx.algorithm = NCR_ALG_RSA
    /\ last.init_before = 1
    /\ last.called
    /\ ~last.oops
    /\ last.answer.cret = CRYPT_OK
    /\ last.answer.stat = 0
    /\ last.answer.osize # OutputCapacity

\* C13: encrypt and decrypt on a context bound to DSA return -EINVAL for
\* every input, do not call the primitive and leave *output_size alone.
C13_DsaCannotEncrypt ==
    (last.op \in {"encrypt", "decrypt"} /\ ctx.algorithm = NCR_ALG_DSA)
        => /\ last.ret = -EINVAL
           /\ ~last.called
           /\ ~last.oops
           /\ last.output_size = OutputCapacity

C13_Witness ==
    /\ last.op = "encrypt"
    /\ ctx.algorithm = NCR_ALG_DSA
    /\ last.init_before = 1
    /\ ctx.key # NULL_KEY

----------------------------------------------------------------------------
(* Claims about the init flag of the context *)

\* ctx->init is 1 exactly when the most recent init returned 0 and no
\* deinit followed it
InitFlagFollowsCalls == (ctx.init = 1) <=> (ctx_state = "initialized")

\* the last init passed the key/algorithm test of line 342, stored the key
\* at line 348 and failed at a later step
FailedInitBoundKey ==
    /\ last_init.key # NULL_KEY
    /\ keys[last_init.key].algorithm = last_init.algo
    /\ last_init.ret # 0

\* C18 as stated: the init flag follows the init and deinit calls, and a
\* context whose flag is 0 has a NULL ctx->key.
C18_InitFlagAndKeyReference ==
    /\ InitFlagFollowsCalls
    /\ ctx.init = 0 => ctx.key = NULL_KEY

\* C18: after any sequence of init and deinit calls ctx->init is 1 exactly
\* when the most recent init returned 0 and no deinit followed it; a
\* context with flag 0 has a NULL ctx->key unless its most recent init
\* accepted the key and failed at a later step, in which case ctx->key
\* still is that key, deinit or not.
C18_InitFlag ==
    /\ InitFlagFollowsCalls
    /\ ctx.init = 0 =>
          IF FailedInitBoundKey THEN ctx.key = last_init.key
          ELSE ctx.key = NULL_KEY

\* init, deinit, then an init that fails on its OAEP hash, then deinit
C18_Witness ==
    /\ last.op = "deinit"
    /\ last.init_before = 0
    /\ ctx.init = 0
    /\ FailedInitBoundKey
    /\ last_init.algo = NCR_ALG_RSA

\* a context deinitialised after a successful init
C18_DeinitReached ==
    /\ last.op = "deinit"
    /\ last.init_before = 1
    /\ ctx.init = 0
    /\ ctx.key = NULL_KEY

----------------------------------------------------------------------------
(* ncr_pk_make_public_and_id on its own: every kind of private key item,  *)
(* every library fault.  ncr_pk_generate reaches it at line 281 with an   *)
(* RSA or DSA item the handler has filled; the function itself also has a *)
(* default case for any other algorithm.                                  *)

\* the random value and the sizes of the keys handed to the function
DeriveSeed == 5
DeriveBits == 1024
DeriveExponents == {3, 65537}

DeriveMaterials ==
    {NoMaterial,
     dsa_make_key(NoFault, DeriveSeed, 160, DeriveBits).key}
    \cup {rsa_make_key(NoFault, DeriveSeed, DeriveBits \div 8, e).key :
              e \in DeriveExponents}

DerivePrivates ==
    {[EmptyKeyItem EXCEPT !.algorithm = a, !.material = mat] :
        a \in {NCR_ALG_RSA, NCR_ALG_DSA, NCR_ALG_AES_CBC}, mat \in DeriveMaterials}

\* the faults that can meet ncr_pk_make_public_and_id
DeriveFaults == {f \in Faults : f.stage # "make"}

\* caller 1 is about to call ncr_pk_make_public_and_id(private, public)
InitDerive ==
    /\ \E private \in DerivePrivates :
          keys = [k \in KeyIds |->
                    IF k = PrivateOf(1) THEN private
                    ELSE IF k = PublicOf(1)
                    THEN [EmptyKeyItem EXCEPT !.algorithm = private.algorithm]
                    ELSE EmptyKeyItem]
    /\ params = [c \in Callers |-> NoParams]
    /\ st = [c \in Callers |-> NoSt]
    /\ completed = [c \in Callers |-> c = 1]
    /\ pk_wq = ncr_pk_queue_init
    /\ running = {}
    /\ handled = {}
    /\ pc = [c \in Callers |-> IF c = 1 THEN "derive" ELSE "idle"]
    /\ gen_ret = [c \in Callers |-> 0]
    /\ \E flt \in DeriveFaults :
          fault = [c \in Callers |-> IF c = 1 THEN flt ELSE NoFault]
    /\ seed = [c \in Callers |-> 0]
    /\ request = [c \in Callers |-> [algo |-> NULL, params |-> NoParams]]
    /\ make_args = [c \in Callers |-> NoArgs]
    /\ submitted = <<1>>
    /\ started = <<1>>
    /\ tmp_buf = [c \in Callers |-> NoBuffer]
    /\ deinit = NoDeinit
    /\ key_last = NoKeyOp
    /\ InitContext

NextDerive == GenerateDerive(1)

SpecDerive == InitDerive /\ [][NextDerive]_vars

\* the paths out of ncr_pk_make_public_and_id, told from its inputs
DerivePrivate == keys[PrivateOf(1)]
AllocationFails == fault[1].stage = "kmalloc"
UnsupportedAlgorithm ==
    ~AllocationFails /\ DerivePrivate.algorithm \notin {NCR_ALG_RSA, NCR_ALG_DSA}
ExportFails ==
    /\ ~AllocationFails
    /\ ~UnsupportedAlgorithm
    /\ \/ fault[1].stage = "export"
       \/ DerivePrivate.material.kind # (IF DerivePrivate.algorithm = NCR_ALG_RSA
                                         THEN "rsa" ELSE "dsa")
ImportFails ==
    ~AllocationFails /\ ~UnsupportedAlgorithm /\ ~ExportFails /\ fault[1].stage = "import"
HashFails ==
    ~AllocationFails /\ ~UnsupportedAlgorithm /\ ~ExportFails /\ fault[1].stage = "hash"

\* C16: on every path out of ncr_pk_make_public_and_id on which the
\* temporary export buffer was allocated (success, export failure, import
\* failure, unsupported algorithm, hash failure) it has been released exactly
\* once when the function returns; when the allocation fails nothing is
\* released.
C16_ExportBufferReleasedOnce ==
    Returned(1) =>
        /\ tmp_buf[1].kmalloc = (IF AllocationFails THEN 0 ELSE 1)
        /\ tmp_buf[1].kfree = tmp_buf[1].kmalloc
        /\ (gen_ret[1] = 0) <=>
              ~(AllocationFails \/ UnsupportedAlgorithm \/ ExportFails
                  \/ ImportFails \/ HashFails)

\* the default case of the switch at line 107 has been taken
C16_Witness ==
    /\ Returned(1)
    /\ UnsupportedAlgorithm
    /\ gen_ret[1] = -EINVAL
    /\ tmp_buf[1] = [kmalloc |-> 1, kfree |-> 1]

C16_SuccessReached == Returned(1) /\ gen_ret[1] = 0 /\ tmp_buf[1].kfree = 1
C16_ExportFailureReached == Returned(1) /\ ExportFails /\ tmp_buf[1].kfree = 1
C16_ImportFailureReached == Returned(1) /\ ImportFails /\ tmp_buf[1].kfree = 1
C16_HashFailureReached == Returned(1) /\ HashFails /\ tmp_buf[1].kfree = 1

----------------------------------------------------------------------------
(* Teardown of the workqueue, lines 302-306, next to the calls of generate *)
(* still inside the engine                                                 *)

\* the work items queued or running
Outstanding ==
    {pk_wq.pending[i] : i \in 1..Len(pk_wq.pending)} \cup running

\* a teardown that does not wait for the work queued before it
flush_workqueue_skipped(flushing) == TRUE

\* flush_workqueue(pk_wq), line 304, returns once every work item queued
\* before the call has finished
flush_workqueue(flushing) == flushing \cap Outstanding = {}

\* destroy_workqueue(pk_wq), line 305: the worker thread is stopped and the
\* queue is gone
destroy_workqueue(wq) == [wq EXCEPT !.alive = FALSE]

\* ncr_pk_queue_deinit is entered and calls flush_workqueue
QueueDeinitEnter ==
    /\ deinit.pc = "idle"
    /\ pk_wq.alive
    /\ deinit' = [pc |-> "flush", flushing |-> Outstanding]
    /\ UNCHANGED <<gen_vars, ctx_vars, tmp_buf, key_last>>

QueueDeinitFlush ==
    /\ deinit.pc = "flush"
    /\ flush_workqueue(deinit.flushing)
    /\ deinit' = [deinit EXCEPT !.pc = "destroy"]
    /\ UNCHANGED <<gen_vars, ctx_vars, tmp_buf, key_last>>

QueueDeinitDestroy ==
    /\ deinit.pc = "destroy"
    /\ pk_wq' = destroy_workqueue(pk_wq)
    /\ deinit' = [deinit EXCEPT !.pc = "done"]
    /\ UNCHANGED <<keys, params, st, completed, running, handled, pc, gen_ret,
                   fault, seed, request, make_args, submitted, started>>
    /\ UNCHANGED <<ctx_vars, tmp_buf, key_last>>

\* the calls made while the engine lives and is torn down
LifeInputs ==
    {GenInput(NCR_ALG_RSA, RsaParams(1024, 0), NoFault),
     GenInput(NCR_ALG_DSA, DsaParams(0, 0), [stage |-> "make", cret |-> CRYPT_MEM]),
     GenInput(NCR_ALG_AES_CBC, NoParams, NoFault)}

NextLife ==
    \/ \E c \in Callers : GenerateSubmit(c, LifeInputs)
    \/ \E c \in Callers : GenerateWake(c)
    \/ \E c \in Callers : GenerateDerive(c)
    \/ WorkerStart
    \/ \E w \in Callers : WorkerHandle(w)
    \/ \E w \in Callers : WorkerComplete(w)
    \/ QueueDeinitEnter
    \/ QueueDeinitFlush
    \/ QueueDeinitDestroy

\* the step GenerateDerive(c) as pc shows it: ncr_pk_make_public_and_id is
\* a total function of the key items, so the step is possible exactly when
\* caller c stands at line 281, and it takes c to the return
DeriveReturns(c) ==
    /\ pc[c] = "derive"
    /\ pc' = [pc EXCEPT ![c] = "done"]

\* the worker thread is scheduled whenever it has work, keygen_handler and
\* the primitives it calls terminate, a woken caller runs on to its return
FairLife ==
    /\ WF_vars(WorkerStart)
    /\ \A w \in Callers : WF_vars(WorkerHandle(w))
    /\ \A w \in Callers : WF_vars(WorkerComplete(w))
    /\ \A c \in Callers : WF_vars(GenerateWake(c))
    /\ \A c \in Callers : WF_pc(DeriveReturns(c))

\* callers of generate, the worker and one teardown, fairly scheduled
SpecLife == InitGen /\ [][NextLife]_vars /\ FairLife

C19_AcceptedCallerReturns ==
    \A c \in Callers : (pc[c] = "wait") ~> Returned(c)

\* a caller has returned whose task was queued behind another one
C19_Witness ==
    /\ Len(started) >= 2
    /\ Returned(started[Len(started)])
    /\ gen_ret[started[Len(started)]] = 0

----------------------------------------------------------------------------
(* Key items: pack, unpack and clear *)

\* what pack or unpack did: its return code, whether it dereferenced a NULL
\* pointer (the return code then means nothing), the status the library call
\* ended with, the caller's *packed_size, the bytes written, the key item
KeyOutcome(ret, oops, cret, packed_size, out, item) ==
    [ret |-> ret, oops |-> oops, cret |-> cret, packed_size |-> packed_size,
     out |-> out, item |-> item]

\* a pointer to a buffer or to a size that is not NULL
BUFFER == "buffer"

\* lines 143-147 and 151-155 without the store into *packed_size
export_failed_size_kept(ex, capacity) ==
    [ret |-> tomerr(ex.cret), packed_size |-> capacity]

\* lines 143-147 and 151-155: the export failed, *packed_size = max_size
export_failed(ex, capacity) ==
    [ret |-> tomerr(ex.cret), packed_size |-> ex.outlen]

\* ncr_pk_pack(key, packed, packed_size), lines 130-164; size_ptr is the
\* pointer packed_size and capacity the value it points to.  Line 132 reads
\* *packed_size before line 135 tests the pointer; the export of a key whose
\* numbers ncr_pk_clear has released reads freed memory.
ncr_pk_pack(flt, key, packed, size_ptr, capacity) ==
    IF size_ptr = NULL
    THEN KeyOutcome(0, TRUE, CRYPT_OK, capacity, <<>>, key)
    ELSE IF packed = NULL
    THEN KeyOutcome(-EINVAL, FALSE, CRYPT_OK, capacity, <<>>, key)
    ELSE IF key.algorithm = NULL
    THEN KeyOutcome(0, TRUE, CRYPT_OK, capacity, <<>>, key)
    ELSE IF key.algorithm \in {NCR_ALG_RSA, NCR_ALG_DSA}
                /\ key.material.kind = "freed"
    THEN KeyOutcome(0, TRUE, CRYPT_OK, capacity, <<>>, key)
    ELSE IF key.algorithm \in {NCR_ALG_RSA, NCR_ALG_DSA}
    THEN LET ex == IF key.algorithm = NCR_ALG_RSA
                   THEN rsa_export(flt, capacity, key.material.type, key.material)
                   ELSE dsa_export(flt, capacity, key.material.type, key.material)
         IN  IF ex.cret # CRYPT_OK
             THEN LET f == export_failed(ex, capacity)
                  IN  KeyOutcome(f.ret, FALSE, ex.cret, f.packed_size, <<>>, key)
             ELSE KeyOutcome(0, FALSE, CRYPT_OK, ex.outlen, ex.out, key)
    ELSE KeyOutcome(-EINVAL, FALSE, CRYPT_OK, capacity, <<>>, key)

\* ncr_pk_unpack handing the status of the import to its caller as it is
ncr_pk_unpack_raw(flt, key, packed, bytes, packed_size) ==
    IF packed = NULL
    THEN KeyOutcome(-EINVAL, FALSE, CRYPT_OK, packed_size, <<>>, key)
    ELSE IF key.algorithm = NULL
    THEN KeyOutcome(0, TRUE, CRYPT_OK, packed_size, <<>>, key)
    ELSE IF key.algorithm \in {NCR_ALG_RSA, NCR_ALG_DSA}
    THEN LET im == IF key.algorithm = NCR_ALG_RSA
                   THEN rsa_import(flt, bytes, packed_size)
                   ELSE dsa_import(flt, bytes, packed_size)
         IN  KeyOutcome(im.cret, FALSE, im.cret, packed_size, <<>>,
                        [key EXCEPT !.material = im.key])
    ELSE KeyOutcome(-EINVAL, FALSE, CRYPT_OK, packed_size, <<>>, key)

\* ncr_pk_unpack(key, packed, packed_size), lines 166-196; bytes is what
\* packed points to
ncr_pk_unpack(flt, key, packed, bytes, packed_size) ==
    IF packed = NULL
    THEN KeyOutcome(-EINVAL, FALSE, CRYPT_OK, packed_size, <<>>, key)
    ELSE IF key.algorithm = NULL
    THEN KeyOutcome(0, TRUE, CRYPT_OK, packed_size, <<>>, key)
    ELSE IF key.algorithm \in {NCR_ALG_RSA, NCR_ALG_DSA}
    THEN LET im == IF key.algorithm = NCR_ALG_RSA
                   THEN rsa_import(flt, bytes, packed_size)
                   ELSE dsa_import(flt, bytes, packed_size)
             imported == [key EXCEPT !.material = im.key]
         IN  IF im.cret # CRYPT_OK
             THEN KeyOutcome(tomerr(im.cret), FALSE, im.cret, packed_size, <<>>, imported)
             ELSE KeyOutcome(0, FALSE, CRYPT_OK, packed_size, <<>>, imported)
    ELSE KeyOutcome(-EINVAL, FALSE, CRYPT_OK, packed_size, <<>>, key)

\* key.pk after rsa_free or dsa_free: the numbers are released
FreedMaterial == [NoMaterial EXCEPT !.kind = "freed"]

\* ncr_pk_clear(key), lines 46-60: the release routine called, the item left
ncr_pk_clear(key) ==
    IF key.algorithm = NULL THEN [routine |-> "none", item |-> key]
    ELSE CASE key.algorithm = NCR_ALG_RSA ->
                [routine |-> "rsa_free", item |-> [key EXCEPT !.material = FreedMaterial]]
           [] key.algorithm = NCR_ALG_DSA ->
                [routine |-> "dsa_free", item |-> [key EXCEPT !.material = FreedMaterial]]
           [] OTHER -> [routine |-> "none", item |-> key]

----------------------------------------------------------------------------
(* Key items: actions.  One caller packs, unpacks and clears two key items *)
(* and generates a key pair into them.                                     *)

\* the calls of generate made on the two items
KeyGenInputs ==
    {GenInput(NCR_ALG_RSA, RsaParams(1024, 0), NoFault),
     GenInput(NCR_ALG_DSA, DsaParams(0, 0), NoFault),
     GenInput(NCR_ALG_RSA, RsaParams(1024, 0), [stage |-> "make", cret |-> CRYPT_MEM]),
     GenInput(NCR_ALG_AES_CBC, NoParams, NoFault)}

\* the key items of the caller, while it is not inside ncr_pk_generate
OwnKeyIds == {PrivateOf(1), PublicOf(1)}
OutsideGenerate == pc[1] \in {"idle", "done"}

\* the capacities pack is called with: the encodings are 5 and 6 long
MinCapacity == 4
MaxCapacity == 7
PackCapacities == MinCapacity..MaxCapacity

PackFaults == {NoFault, [stage |-> "export", cret |-> CRYPT_MEM]}

\* the last operation was a pack of this item, unchanged since, that
\* overflowed and reported this capacity
IsRetry(k, capacity) ==
    /\ key_last.op = "pack"
    /\ key_last.key = k
    /\ key_last.item = keys[k]
    /\ ~key_last.oops
    /\ key_last.ret = -EOVERFLOW
    /\ key_last.packed_size = capacity

KeyRecord(op, k, packed, capacity, flt, retry, r, routine) ==
    [op |-> op, key |-> k, item |-> keys[k], packed |-> packed,
     capacity |-> capacity, fault |-> flt, retry |-> retry,
     ret |-> r.ret, oops |-> r.oops, cret |-> r.cret,
     packed_size |-> r.packed_size, routine |-> routine]

\* ncr_pk_pack called with a capacity and a library fault out of the given
\* sets
KeyPackWith(capacities, faults) ==
    /\ OutsideGenerate
    /\ \E k \in OwnKeyIds, packed \in {NULL, BUFFER}, size_ptr \in {NULL, BUFFER},
          capacity \in capacities, flt \in faults :
          LET r == ncr_pk_pack(flt, keys[k], packed, size_ptr, capacity)
          IN  key_last' = KeyRecord("pack", k, packed, capacity, flt,
                                    IsRetry(k, capacity), r, "none")
    /\ last' = NoLast
    /\ UNCHANGED <<gen_vars, ctx, ctx_state, last_init, life_vars>>

KeyPack == KeyPackWith(PackCapacities, PackFaults)

\* the byte strings unpack is called with: the encodings of keys, whole and
\* cut short, and no bytes at all
PackedInputs ==
    {[bytes |-> Encode(t, mat), size |-> Len(Encode(t, mat)) - cut] :
        t \in {PK_PUBLIC, PK_PRIVATE}, mat \in DeriveMaterials \ {NoMaterial},
        cut \in {0, 1}}

UnpackFaults == {NoFault, [stage |-> "import", cret |-> CRYPT_MEM]}

\* ncr_pk_unpack called with bytes and a library fault out of the given sets
KeyUnpackWith(inputs, faults) ==
    /\ OutsideGenerate
    /\ \E k \in OwnKeyIds, packed \in {NULL, BUFFER}, in \in inputs,
          flt \in faults :
          LET r == ncr_pk_unpack(flt, keys[k], packed, in.bytes, in.size)
          IN  /\ key_last' = KeyRecord("unpack", k, packed, in.size, flt, FALSE, r, "none")
              /\ keys' = [keys EXCEPT ![k] = r.item]
    /\ last' = NoLast
    /\ UNCHANGED <<params, st, completed, pk_wq, running, handled, pc, gen_ret,
                   fault, seed, request, make_args, submitted, started>>
    /\ UNCHANGED <<ctx, ctx_state, last_init, life_vars>>

KeyUnpack == KeyUnpackWith(PackedInputs, UnpackFaults)

KeyClear ==
    /\ OutsideGenerate
    /\ \E k \in OwnKeyIds :
          LET r == ncr_pk_clear(keys[k])
          IN  /\ key_last' = KeyRecord("clear", k, NULL, 0, NoFault, FALSE,
                                       KeyOutcome(0, FALSE, CRYPT_OK, 0, <<>>, r.item),
                                       r.routine)
              /\ keys' = [keys EXCEPT ![k] = r.item]
    /\ last' = NoLast
    /\ UNCHANGED <<params, st, completed, pk_wq, running, handled, pc, gen_ret,
                   fault, seed, request, make_args, submitted, started>>
    /\ UNCHANGED <<ctx, ctx_state, last_init, life_vars>>

NextKey ==
    \/ GenerateSubmit(1, KeyGenInputs)
    \/ GenerateWake(1)
    \/ GenerateDerive(1)
    \/ WorkerStart
    \/ WorkerHandle(1)
    \/ WorkerComplete(1)
    \/ KeyPack
    \/ KeyUnpack
    \/ KeyClear

\* the life of a key pair: generate, pack, unpack and clear in any order
SpecKey == InitGen /\ [][NextKey]_vars

----------------------------------------------------------------------------
(* Every public operation side by side: one caller with two key items and *)
(* one context bound to them                                               *)

\* the calls of generate, init, pack and unpack made here
OpsGenInputs ==
    {GenInput(NCR_ALG_RSA, RsaParams(1024, 0), NoFault),
     GenInput(NCR_ALG_DSA, DsaParams(0, 0), [stage |-> "make", cret |-> CRYPT_BUFFER_OVERFLOW]),
     GenInput(NCR_ALG_RSA, RsaParams(1024, 0), [stage |-> "kmalloc", cret |-> CRYPT_MEM])}

OpsKeyParams ==
    {p \in KeyParams :
        /\ p.rsa.type = RSA_PKCS1_OAEP
        /\ p.rsa.oaep_hash = p.rsa.sign_hash
        /\ p.dsa.sign_hash = NCR_ALG_SHA1
        /\ p.rsa.pss_salt = 0}

OpsCapacities == {MinCapacity, MaxCapacity}

OpsPackedInputs ==
    {in \in PackedInputs :
        /\ in.bytes[1] = FamilyCode("rsa")
        /\ in.bytes[2] = PK_PUBLIC
        /\ in.bytes[4] = 3}

NextOps ==
    \/ GenerateSubmit(1, OpsGenInputs)
    \/ GenerateWake(1)
    \/ GenerateDerive(1)
    \/ WorkerStart
    \/ WorkerHandle(1)
    \/ WorkerComplete(1)
    \/ KeyPackWith(OpsCapacities, PackFaults)
    \/ KeyUnpackWith(OpsPackedInputs, UnpackFaults)
    \/ CipherInitWith(CtxAlgos, {PrivateOf(1)}, OpsKeyParams)
    \/ CipherDeinit
    \/ CipherEncrypt
    \/ CipherDecrypt
    \/ CipherSign
    \/ CipherVerify

\* generate, pack, unpack, init, encrypt, decrypt, sign and verify in any
\* order
SpecOps == InitGen /\ [][NextOps]_vars

----------------------------------------------------------------------------
(* Claims about pack, about the return codes and about clear *)

\* the family of numbers an algorithm keeps in key.pk
FamilyOf(algorithm) == IF algorithm = NCR_ALG_RSA THEN "rsa" ELSE "dsa"

\* the item holds a key of its algorithm, so it has an encoding
HasEncoding(item) ==
    /\ item.algorithm \in {NCR_ALG_RSA, NCR_ALG_DSA}
    /\ item.material.kind = FamilyOf(item.algorithm)

EncodingSize(item) == Len(Encode(item.material.type, item.material))

\* a pack of a key that has an encoding, into a buffer, has returned and the
\* library met no failure of its own
PackDone ==
    /\ key_last.op = "pack"
    /\ ~key_last.oops
    /\ key_last.packed = BUFFER
    /\ key_last.fault = NoFault
    /\ HasEncoding(key_last.item)

\* C14: a pack into a buffer whose capacity is smaller than the encoding of
\* the key returns -EOVERFLOW and stores the required capacity in
\* *packed_size; a second pack of the same unchanged key with exactly that
\* capacity returns 0 and stores the produced size, the same number.
C14_PackOverflowThenRetry ==
    PackDone =>
        /\ key_last.capacity < EncodingSize(key_last.item) =>
              /\ key_last.ret = -EOVERFLOW
              /\ key_last.packed_size = EncodingSize(key_last.item)
        /\ key_last.retry =>
              /\ key_last.ret = 0
              /\ key_last.packed_size = key_last.capacity
              /\ key_last.packed_size = EncodingSize(key_last.item)

\* the second pack, made with the capacity the first one reported
C14_Witness ==
    /\ PackDone
    /\ key_last.retry
    /\ key_last.ret = 0
    /\ key_last.capacity > MinCapacity

\* the return codes of the public operations
MappedErrors == {-EOVERFLOW, -ENOMEM, -EINVAL}

\* the return code an operation gives for the status cret of the library
\* call it made, 0 or -EINVAL where the library reported no failure
ReturnsFor(ret, cret) ==
    /\ ret \in {0} \cup MappedErrors
    /\ cret # CRYPT_OK => ret = MappedError(cret)
    /\ cret = CRYPT_OK => ret \in {0, -EINVAL}

\* C15: generate, pack, unpack, init, encrypt, decrypt, sign and verify
\* return 0 or one of -EOVERFLOW, -ENOMEM, -EINVAL; a failure status of
\* the numeric library comes back as -EOVERFLOW for CRYPT_BUFFER_OVERFLOW, as
\* -ENOMEM for CRYPT_MEM and as -EINVAL for any other, never as the status
\* itself.
C15_OnlyMappedErrors ==
    /\ \A c \in Callers :
          Returned(c) =>
              /\ gen_ret[c] \in {0} \cup MappedErrors
              /\ MakeFails(c) => gen_ret[c] = MappedError(fault[c].cret)
    /\ (key_last.op \in {"pack", "unpack"} /\ ~key_last.oops) =>
          ReturnsFor(key_last.ret, key_last.cret)
    /\ (last.op \in {"init", "encrypt", "decrypt", "sign", "verify"} /\ ~last.oops) =>
          ReturnsFor(last.ret, IF last.called THEN last.answer.cret ELSE CRYPT_OK)

\* an unpack whose import failed with a status of the library
C15_Witness ==
    /\ key_last.op = "unpack"
    /\ ~key_last.oops
    /\ key_last.cret = CRYPT_INVALID_ARG
    /\ key_last.ret = -EINVAL
    /\ Returned(1)
    /\ gen_ret[1] = -EOVERFLOW

\* C20: when ncr_pk_clear calls rsa_free or dsa_free, the key item holds
\* numbers of that family, made by generate or by unpack.
C20_ClearReleasesOnlyCreated ==
    key_last.op = "clear" =>
        /\ key_last.routine = "rsa_free" => key_last.item.material.kind = "rsa"
        /\ key_last.routine = "dsa_free" => key_last.item.material.kind = "dsa"

\* clear of the private item after a generate whose rsa_make_key failed
C20_ClearAfterFailedGenerate ==
    /\ key_last.op = "clear"
    /\ key_last.key = PrivateOf(1)
    /\ key_last.routine = "rsa_free"
    /\ key_last.item.material.kind = "none"
    /\ Returned(1)
    /\ gen_ret[1] = -ENOMEM
    /\ fault[1].stage = "make"

====
